---------------------------- MODULE Spec2Model ----------------------------
(***************************************************************************)
(* The ivshmem-v1 device of acrn-dm (devicemodel/hw/pci/ivshmem.c).        *)
(*                                                                         *)
(* Every device instance lives in its own acrn-dm process (one per VM):    *)
(* it has its own descriptor table, its own address space and its own      *)
(* guest address space.  The processes share the POSIX shared-memory       *)
(* namespace (/dev/shm) and the objects behind it.  Inside one process     *)
(* the handlers run one at a time; between processes the system calls of   *)
(* create_shared_memory interleave.  A step of the model is one system     *)
(* call that other processes can see the effect of (shm_open, ftruncate,   *)
(* fstat, shm_unlink) together with the process-local code around it.      *)
(*                                                                         *)
(* 64-bit quantities are kept as four 16-bit words, least significant      *)
(* first, and 32-bit configuration registers as two.                       *)
(***************************************************************************)
EXTENDS Integers, Sequences, FiniteSets, TLC

(***************************************************************************)
(* Bounds of the model.                                                    *)
(***************************************************************************)
NumInst == 2
MaxFaults == 1
\* processes started with descriptor 0 closed
MaxNoStdin == 1

Inst == 1..NumInst

(***************************************************************************)
(* Program constants.                                                      *)
(***************************************************************************)
IVSHMEM_MMIO_BAR == 0
IVSHMEM_MEM_BAR == 2
IVSHMEM_VENDOR_ID == 6900
IVSHMEM_DEVICE_ID == 4368
IVSHMEM_CLASS == 5
IVSHMEM_REV == 1
IVSHMEM_REG_SIZE == 256
IVSHMEM_IRQ_MASK_REG == 0
IVSHMEM_IRQ_STA_REG == 4
IVSHMEM_IV_POS_REG == 8
IVSHMEM_DOORBELL_REG == 12
MinShmSize == 4096
MaxShmSize == 128 * 1024 * 1024

NULL == 0
\* mmap's error return, (void *)-1
MAP_FAILED == -1

(***************************************************************************)
(* Integer helpers, computed bit by bit as the C operators do.             *)
(***************************************************************************)
RECURSIVE BitAnd(_, _)
BitAnd(a, b) ==
    IF a = 0 \/ b = 0 THEN 0
    ELSE (a % 2) * (b % 2) + 2 * BitAnd(a \div 2, b \div 2)

RECURSIVE ShiftRight(_, _)
ShiftRight(a, k) == IF k = 0 THEN a ELSE ShiftRight(a \div 2, k - 1)

Min(S) == CHOOSE x \in S : \A y \in S : x <= y

Word == 256 * 256
AllOnes64 == <<Word - 1, Word - 1, Word - 1, Word - 1>>
Zero64 == <<0, 0, 0, 0>>

(***************************************************************************)
(* The option string "shm_name,shm_size" is a sequence of characters.      *)
(***************************************************************************)
DigitChars == <<"0", "1", "2", "3", "4", "5", "6", "7", "8", "9">>
IsDigit(c) == \E k \in 1..10 : DigitChars[k] = c
DigitVal(c) == (CHOOSE k \in 1..10 : DigitChars[k] = c) - 1

RECURSIVE Dec(_)
Dec(n) == IF n < 10 THEN <<DigitChars[n + 1]>>
          ELSE Dec(n \div 10) \o <<DigitChars[(n % 10) + 1]>>

\* The absent string: what strsep leaves in tmp when there is no delimiter.
NoStr == <<"\\0">>

\* strsep(&tmp, ","): the token up to the first comma, and the rest after it.
RECURSIVE CommaAt(_, _)
CommaAt(s, k) ==
    IF k > Len(s) THEN 0
    ELSE IF s[k] = "," THEN k ELSE CommaAt(s, k + 1)

Strsep(s) ==
    LET k == CommaAt(s, 1)
    IN IF k = 0 THEN [token |-> s, rest |-> NoStr]
       ELSE [token |-> SubSeq(s, 1, k - 1), rest |-> SubSeq(s, k + 1, Len(s))]

\* dm_strtoui(s, &end, 10, &val): the leading decimal digits of s; fails on an
\* absent string, on no digit at all, and on a value out of range.  The model's
\* integers end at 2^31 - 1, so a value that would pass it is reported out of
\* range; the size check of pci_ivshmem_init rejects every such value anyway.
RECURSIVE DigitsLen(_, _)
DigitsLen(s, k) ==
    IF k > Len(s) \/ ~IsDigit(s[k]) THEN k - 1 ELSE DigitsLen(s, k + 1)

RECURSIVE DecValue(_, _, _)
DecValue(s, n, acc) ==
    IF n = 0 THEN acc
    ELSE IF acc > (2147483647 - 9) \div 10 THEN -1
    ELSE DecValue(Tail(s), n - 1, acc * 10 + DigitVal(Head(s)))

DmStrtoui(s) ==
    IF s = NoStr THEN [rc |-> -1, val |-> 0]
    ELSE LET n == DigitsLen(s, 1)
             v == DecValue(s, n, 0)
         IN IF n = 0 \/ v < 0 THEN [rc |-> -1, val |-> 0]
            ELSE [rc |-> 0, val |-> v]

SizeRejected_noPow2(size) ==
    \/ size < MinShmSize
    \/ size > MaxShmSize

\* lines 232-233: the size check of pci_ivshmem_init
SizeRejected(size) ==
    \/ size < MinShmSize
    \/ size > MaxShmSize
    \/ BitAnd(size, size - 1) # 0

\* lines 218-237: parse and validate; ok is "no goto err so far"
ParseOpts(opts) ==
    LET t == Strsep(opts)
        r == DmStrtoui(t.rest)
    IN IF r.rc # 0 THEN [ok |-> FALSE, name |-> t.token, size |-> 0]
       ELSE IF SizeRejected(r.val) THEN [ok |-> FALSE, name |-> t.token, size |-> r.val]
       ELSE [ok |-> TRUE, name |-> t.token, size |-> r.val]

(***************************************************************************)
(* The inputs: option strings the framework may hand to init.              *)
(***************************************************************************)
Name0 == <<"s", "0">>
Names == {Name0}
SmallSize == MinShmSize
BigSize == MaxShmSize
ValidSizes == {SmallSize, BigSize}
BadSizes == {0, 2048, 4095, 5000, MaxShmSize + 1, 2 * MaxShmSize}
Opt(name, size) == name \o <<",">> \o Dec(size)
GoodOpts == {Opt(Name0, s) : s \in ValidSizes}
\* a string with an empty name passes the parser and the size check
EmptyNameOpts == {Opt(<<>>, SmallSize)}
BadOpts == {Opt(Name0, s) : s \in BadSizes}
              \cup {Name0, Name0 \o <<",">>, Name0 \o <<",", "x">>}
Opts == GoodOpts \cup EmptyNameOpts \cup BadOpts

(***************************************************************************)
(* The PCI framework (pci_core.c), which is not part of ivshmem.c.  It     *)
(* makes a new struct pci_vdev for every init and frees it when init has   *)
(* failed or deinit has run.  Its BAR allocator gives the memory BAR a     *)
(* base that is a multiple of every valid size, here 0x1_8000_0000, and    *)
(* programs the type bits (64-bit memory) into the low nibble of the low   *)
(* register.                                                               *)
(***************************************************************************)
PCIBAR_MEM32 == "mem32"
PCIBAR_MEM64 == "mem64"
MemBase64 == <<0, 128 * 256, 1, 0>>
BarLoBits64 == 4

\* the guest physical base the framework assigns to the memory BAR
AllocBase(size) == MemBase64

\* PCIR_BAR(2) and PCIR_BAR(3) as the framework programs them
BarRegs(size) ==
    LET b == AllocBase(size)
    IN [lo |-> <<b[1] + BarLoBits64, b[2]>>, hi |-> <<b[3], b[4]>>]

\* lines 257-259: addr = lo | (hi << 32); addr &= PCIM_BAR_MEM_BASE (~0xf)
ReadBarAddr(regs) ==
    <<regs.lo[1] - (regs.lo[1] % 16), regs.lo[2], regs.hi[1], regs.hi[2]>>

\* lines 249-255: the config space and BARs of an initialised device
NoCfg == [ident |-> <<>>, bar0 |-> <<>>, bar2 |-> <<>>, regs |-> <<>>]
CfgFor(size) ==
    [ident |-> <<IVSHMEM_VENDOR_ID, IVSHMEM_DEVICE_ID, IVSHMEM_REV, IVSHMEM_CLASS>>,
     bar0 |-> <<PCIBAR_MEM32, IVSHMEM_REG_SIZE>>,
     bar2 |-> <<PCIBAR_MEM64, size>>,
     regs |-> BarRegs(size)]

(***************************************************************************)
(* State.                                                                  *)
(***************************************************************************)
VARIABLES
    pc,       \* the system call each instance's init has reached ("idle": no call)
    loc,      \* the locals of the call in progress
    arg,      \* dev->arg: NoDev (NULL) or the struct pci_ivshmem_vdev
    cfg,      \* the device's config space and BARs
    fdt,      \* each process's descriptor table: fd -> object, Free or Other
    vma,      \* each process's shared mappings: a set of [addr, len, obj]
    guest,    \* each VM's installed ranges: a set of [gpa, len, hva]
    ns,       \* the shared-memory namespace: name -> object or NoObj
    objSize,  \* the size of each object
    faults,   \* primitive failures injected so far
    res,      \* the last lifecycle call completed on each instance's device
    io        \* the last register access, what it returned or logged, and
              \* whether a register has been written so far

vars == <<pc, loc, arg, cfg, fdt, vma, guest, ns, objSize, faults, res, io>>

Fds == {0, 3}
Free == 0
Other == -1
NoObj == 0
MaxObj == 2 * NumInst + Cardinality(Names)
Objs == 1..MaxObj
HostAddrs == {1, 2}

NoDev == [alloc |-> FALSE, name |-> NoStr, fd |-> 0, addr |-> NULL, size |-> 0]
\* calloc(1, sizeof(struct pci_ivshmem_vdev)): all fields zero
ZeroDev == [alloc |-> TRUE, name |-> NoStr, fd |-> 0, addr |-> NULL, size |-> 0]
NoLoc == [name |-> NoStr, size |-> 0, bar_addr |-> Zero64, fd |-> -1,
          addr |-> NULL, is_shm_creator |-> FALSE, created |-> FALSE]
NoRes == [op |-> "none", ret |-> 0, creator |-> FALSE]
NoIo == [op |-> "none", wrote |-> FALSE]

Init ==
    /\ pc = [i \in Inst |-> "idle"]
    /\ loc = [i \in Inst |-> NoLoc]
    /\ arg = [i \in Inst |-> NoDev]
    /\ cfg = [i \in Inst |-> NoCfg]
    \* a process starts with stdin open or closed; descriptor 3 is the next free
    /\ fdt \in [Inst -> {[f \in Fds |-> IF f = 0 THEN x ELSE Free] : x \in {Free, Other}}]
    /\ Cardinality({i \in Inst : fdt[i][0] = Free}) <= MaxNoStdin
    /\ vma = [i \in Inst |-> {}]
    /\ guest = [i \in Inst |-> {}]
    /\ ns = [n \in Names |-> NoObj]
    /\ objSize = [o \in Objs |-> 0]
    /\ faults = 0
    /\ res = [i \in Inst |-> NoRes]
    /\ io = NoIo

(***************************************************************************)
(* The kernel: descriptors, mappings and objects.                          *)
(***************************************************************************)
FreeFds(i) == {f \in Fds : fdt[i][f] = Free}
\* POSIX: open returns the lowest descriptor not open in the process
LowestFd(i) == Min(FreeFds(i))

Referenced(o, nsN, fdtN, vmaN) ==
    \/ \E n \in Names : nsN[n] = o
    \/ \E i \in Inst : \E f \in Fds : fdtN[i][f] = o
    \/ \E i \in Inst : \E m \in vmaN[i] : m.obj = o
Live(o) == Referenced(o, ns, fdt, vma)
FreeObjs == {o \in Objs : ~Live(o)}

\* an object lives until its name, its descriptors and its mappings are gone
Reap(nsN, fdtN, vmaN, szN) ==
    [o \in Objs |-> IF Referenced(o, nsN, fdtN, vmaN) THEN szN[o] ELSE 0]

\* munmap(addr, len): drops the mappings that start at addr; EINVAL on MAP_FAILED
Munmap(maps, addr) == {m \in maps : m.addr # addr}
\* close(fd)
Close(tab, fd) == [tab EXCEPT ![fd] = Free]
\* shm_unlink(name): ENOENT when the name is not there
ShmUnlink(nsN, name) ==
    IF name \in Names THEN [nsN EXCEPT ![name] = NoObj] ELSE nsN

FdObj(i, fd) == IF fd \in Fds THEN fdt[i][fd] ELSE NoObj

(***************************************************************************)
(* pci_ivshmem_init.                                                       *)
(***************************************************************************)
Idle(i) == pc[i] = "idle"
\* the framework hands init a device it has just made
Fresh(i) == Idle(i) /\ ~arg[i].alloc /\ cfg[i] = NoCfg /\ res[i] = NoRes

Failed == [op |-> "init", ret |-> -1, creator |-> FALSE]

Fault == faults < MaxFaults /\ faults' = faults + 1
NoFault == UNCHANGED faults

\* lines 218-237, 271-278: the option string is rejected
InitParseFail(i, opts) ==
    /\ Fresh(i)
    /\ ~ParseOpts(opts).ok
    /\ res' = [res EXCEPT ![i] = Failed]
    /\ UNCHANGED <<pc, loc, arg, cfg, fdt, vma, guest, ns, objSize, faults, io>>

\* lines 218-222 and 239-243: strdup or calloc returns NULL
InitNoMem(i, opts) ==
    /\ Fresh(i)
    /\ Fault
    /\ res' = [res EXCEPT ![i] = Failed]
    /\ UNCHANGED <<pc, loc, arg, cfg, fdt, vma, guest, ns, objSize, io>>

\* lines 75-80: the arguments and locals create_shared_memory starts with
CallLocals(p, c) ==
    [NoLoc EXCEPT !.name = p.name, !.size = p.size,
                  !.bar_addr = ReadBarAddr(c.regs)]

\* lines 125-130, then 271-278: unwind and return -1
ErrExit(i, l) ==
    /\ vma' = [vma EXCEPT ![i] = IF l.addr # NULL THEN Munmap(@, l.addr) ELSE @]
    /\ fdt' = [fdt EXCEPT ![i] = IF l.fd > 0 THEN Close(@, l.fd) ELSE @]
    /\ objSize' = Reap(ns, fdt', vma', objSize)
    /\ arg' = [arg EXCEPT ![i] = NoDev]
    /\ res' = [res EXCEPT ![i] = Failed]
    /\ pc' = [pc EXCEPT ![i] = "idle"]
    /\ loc' = [loc EXCEPT ![i] = NoLoc]
    /\ UNCHANGED <<ns, io>>

\* every call that got a descriptor resizes the object
AfterOpen_allResize(fd, creator) ==
    IF fd < 0 THEN "err" ELSE "truncate"

\* the position after line 86, from fd and is_shm_creator (lines 88, 93)
AfterOpen(fd, creator) ==
    IF fd < 0 THEN "err" ELSE IF creator THEN "truncate" ELSE "stat"

\* lines 83-84
IsCreator(fd) == fd > 0

\* lines 239-266, then line 82: shm_open(name, O_CREAT | O_EXCL | O_RDWR)
\* creates the object
InitCreateOk(i, opts) ==
    LET p == ParseOpts(opts)
        c == CfgFor(p.size)
    IN
    /\ Fresh(i) /\ p.ok
    /\ p.name \in Names /\ ns[p.name] = NoObj
    /\ FreeFds(i) # {} /\ FreeObjs # {}
    /\ LET fd == LowestFd(i)
           o == Min(FreeObjs)
           creator == IsCreator(fd)
       IN /\ ns' = [ns EXCEPT ![p.name] = o]
          /\ fdt' = [fdt EXCEPT ![i][fd] = o]
          /\ objSize' = [objSize EXCEPT ![o] = 0]
          /\ loc' = [loc EXCEPT ![i] = [CallLocals(p, c) EXCEPT !.fd = fd,
                                          !.is_shm_creator = creator, !.created = TRUE]]
          /\ pc' = [pc EXCEPT ![i] = AfterOpen(fd, creator)]
    /\ arg' = [arg EXCEPT ![i] = ZeroDev]
    /\ cfg' = [cfg EXCEPT ![i] = c]
    /\ NoFault
    /\ UNCHANGED <<vma, guest, res, io>>

\* line 82 fails with EEXIST: on to the open of line 86
InitCreateExists(i, opts) ==
    LET p == ParseOpts(opts)
        c == CfgFor(p.size)
    IN
    /\ Fresh(i) /\ p.ok
    /\ p.name \in Names /\ ns[p.name] # NoObj
    /\ loc' = [loc EXCEPT ![i] = CallLocals(p, c)]
    /\ pc' = [pc EXCEPT ![i] = "open"]
    /\ arg' = [arg EXCEPT ![i] = ZeroDev]
    /\ cfg' = [cfg EXCEPT ![i] = c]
    /\ UNCHANGED <<fdt, vma, guest, ns, objSize, faults, res, io>>

\* line 82 fails otherwise: EINVAL for an empty name, or an injected error
\* (descriptor 3 is free whenever a call starts, so EMFILE does not arise)
InitCreateFail(i, opts) ==
    LET p == ParseOpts(opts)
        c == CfgFor(p.size)
    IN
    /\ Fresh(i) /\ p.ok
    /\ \/ p.name \notin Names /\ NoFault
       \/ p.name \in Names /\ ns[p.name] = NoObj /\ Fault
    /\ cfg' = [cfg EXCEPT ![i] = c]
    /\ ErrExit(i, CallLocals(p, c))
    /\ UNCHANGED guest

(***************************************************************************)
(* create_shared_memory after the exclusive create.                        *)
(***************************************************************************)
\* line 86: shm_open(name, O_RDWR) opens the existing object
ShmOpenOk(i) ==
    LET l == loc[i] IN
    /\ pc[i] = "open"
    /\ ns[l.name] # NoObj /\ FreeFds(i) # {}
    /\ LET fd == LowestFd(i)
       IN /\ fdt' = [fdt EXCEPT ![i][fd] = ns[l.name]]
          /\ loc' = [loc EXCEPT ![i] = [l EXCEPT !.fd = fd]]
          /\ pc' = [pc EXCEPT ![i] = AfterOpen(fd, l.is_shm_creator)]
    /\ NoFault
    /\ UNCHANGED <<arg, cfg, vma, guest, ns, objSize, res, io>>

\* line 86 fails: ENOENT when the name has gone meanwhile, or an injected error
ShmOpenFail(i) ==
    LET l == loc[i] IN
    /\ pc[i] = "open"
    /\ \/ ns[l.name] = NoObj /\ NoFault
       \/ ns[l.name] # NoObj /\ Fault
    /\ ErrExit(i, l)
    /\ UNCHANGED <<cfg, guest>>

\* line 94: ftruncate(fd, size)
FtruncateOk(i) ==
    LET l == loc[i] IN
    /\ pc[i] = "truncate"
    /\ objSize' = [objSize EXCEPT ![FdObj(i, l.fd)] = l.size]
    /\ pc' = [pc EXCEPT ![i] = "map"]
    /\ NoFault
    /\ UNCHANGED <<loc, arg, cfg, fdt, vma, guest, ns, res, io>>

FtruncateFail(i) ==
    /\ pc[i] = "truncate"
    /\ Fault
    /\ ErrExit(i, loc[i])
    /\ UNCHANGED <<cfg, guest>>

SizeDiffers_shrinkOnly(stsize, size) == stsize > size

\* line 99: what the size check makes of st_size
SizeDiffers(stsize, size) == stsize # size

\* line 99: fstat succeeds and st_size equals size
FstatMatch(i) ==
    LET l == loc[i] IN
    /\ pc[i] = "stat"
    /\ ~SizeDiffers(objSize[FdObj(i, l.fd)], l.size)
    /\ pc' = [pc EXCEPT ![i] = "map"]
    /\ UNCHANGED <<loc, arg, cfg, fdt, vma, guest, ns, objSize, faults, res, io>>

\* line 99: st_size differs from size
FstatMismatch(i) ==
    LET l == loc[i] IN
    /\ pc[i] = "stat"
    /\ SizeDiffers(objSize[FdObj(i, l.fd)], l.size)
    /\ NoFault
    /\ ErrExit(i, l)
    /\ UNCHANGED <<cfg, guest>>

\* line 99: fstat itself fails
FstatFail(i) ==
    /\ pc[i] = "stat"
    /\ Fault
    /\ ErrExit(i, loc[i])
    /\ UNCHANGED <<cfg, guest>>

FreeAddrs(i) == {a \in HostAddrs : \A m \in vma[i] : m.addr # a}

\* lines 106-107: mmap(NULL, size, PROT_READ | PROT_WRITE, MAP_SHARED, fd, 0)
\* returns a free address, or MAP_FAILED
MmapAddr(i, ok) == IF ok THEN Min(FreeAddrs(i)) ELSE MAP_FAILED
MmapMaps(i, l, a) ==
    IF a = MAP_FAILED THEN vma[i]
    ELSE vma[i] \cup {[addr |-> a, len |-> l.size, obj |-> FdObj(i, l.fd)]}

\* line 110: the test that guards vm_map_memseg_vma
AddrMissing(addr) == addr = NULL

\* the range vm_map_memseg_vma installs replaces what was installed at that base
Install(g, gpa, len, hva) ==
    {r \in g : r.gpa # gpa} \cup {[gpa |-> gpa, len |-> len, hva |-> hva]}

\* lines 121-123
Region(l, addr) ==
    [alloc |-> TRUE, name |-> l.name, fd |-> l.fd, addr |-> addr, size |-> l.size]

\* lines 106-124: mmap, vm_map_memseg_vma, strdup and the recording of the
\* Region, all local to the process.  mm, vm and sd say whether mmap,
\* vm_map_memseg_vma and strdup succeed.  What the hypervisor answers for the
\* address MAP_FAILED is not this code's to decide: both answers are possible.
MapRegion(i, mm, vm, sd) ==
    LET l == loc[i]
        addr == MmapAddr(i, mm)
        maps == MmapMaps(i, l, addr)
        installed == ~AddrMissing(addr) /\ vm
        injected == (IF mm THEN 0 ELSE 1) + (IF mm /\ ~vm THEN 1 ELSE 0)
                        + (IF installed /\ ~sd THEN 1 ELSE 0)
    IN
    /\ pc[i] = "map"
    /\ FreeAddrs(i) # {}
    /\ installed \/ sd
    /\ faults + injected <= MaxFaults
    /\ faults' = faults + injected
    /\ guest' = [guest EXCEPT ![i] =
                    IF installed THEN Install(@, l.bar_addr, l.size, addr) ELSE @]
    /\ IF installed /\ sd
       THEN /\ vma' = [vma EXCEPT ![i] = maps]
            /\ arg' = [arg EXCEPT ![i] = Region(l, addr)]
            /\ res' = [res EXCEPT ![i] = [op |-> "init", ret |-> 0,
                                          creator |-> l.is_shm_creator]]
            /\ pc' = [pc EXCEPT ![i] = "idle"]
            /\ loc' = [loc EXCEPT ![i] = NoLoc]
            /\ UNCHANGED <<fdt, ns, objSize, io>>
       ELSE /\ vma' = [vma EXCEPT ![i] = IF addr # NULL THEN Munmap(maps, addr) ELSE maps]
            /\ fdt' = [fdt EXCEPT ![i] = IF l.fd > 0 THEN Close(@, l.fd) ELSE @]
            /\ objSize' = Reap(ns, fdt', vma', objSize)
            /\ arg' = [arg EXCEPT ![i] = NoDev]
            /\ res' = [res EXCEPT ![i] = Failed]
            /\ pc' = [pc EXCEPT ![i] = "idle"]
            /\ loc' = [loc EXCEPT ![i] = NoLoc]
            /\ UNCHANGED <<ns, io>>
    /\ UNCHANGED cfg

(***************************************************************************)
(* pci_ivshmem_deinit.  Only shm_unlink is seen by the other processes,    *)
(* so the handler is one step.                                             *)
(***************************************************************************)
\* lines 286-290: no device state
DeinitNone(i) ==
    /\ Idle(i) /\ ~arg[i].alloc
    /\ res[i].op # "none"
    /\ res' = [res EXCEPT ![i] = [op |-> "noop", ret |-> 0, creator |-> FALSE]]
    /\ UNCHANGED <<pc, loc, arg, cfg, fdt, vma, guest, ns, objSize, faults, io>>

\* lines 295-303: what deinit does to the namespace
DeinitUnlink(v, creator) ==
    IF v.name # NoStr THEN ShmUnlink(ns, v.name) ELSE ns

\* a deinit that leaves dev->arg pointing at the freed struct
DeinitArg_kept(v) == v

\* lines 304-305: free(vdev); dev->arg = NULL
DeinitArg(v) == NoDev

\* lines 291-305
Deinit(i) ==
    LET v == arg[i] IN
    /\ Idle(i) /\ v.alloc
    /\ vma' = [vma EXCEPT ![i] = IF v.addr # NULL /\ v.size # 0
                                 THEN Munmap(@, v.addr) ELSE @]
    /\ fdt' = [fdt EXCEPT ![i] = IF v.fd > 0 THEN Close(@, v.fd) ELSE @]
    /\ ns' = DeinitUnlink(v, res[i].creator)
    /\ objSize' = Reap(ns', fdt', vma', objSize)
    /\ arg' = [arg EXCEPT ![i] = DeinitArg(v)]
    /\ res' = [res EXCEPT ![i] = [op |-> "deinit", ret |-> 0, creator |-> res[i].creator]]
    /\ UNCHANGED <<pc, loc, cfg, guest, faults, io>>

\* the framework frees the device after a failed init or after deinit
DevFree(i) ==
    /\ Idle(i) /\ ~arg[i].alloc
    /\ res[i] # NoRes
    /\ cfg' = [cfg EXCEPT ![i] = NoCfg]
    /\ res' = [res EXCEPT ![i] = NoRes]
    /\ UNCHANGED <<pc, loc, arg, fdt, vma, guest, ns, objSize, faults, io>>

(***************************************************************************)
(* The register file: pci_ivshmem_read and pci_ivshmem_write.              *)
(***************************************************************************)
\* lines 194-204: the value cut to the access width
\* a masking that forgets the 4-byte case
MaskWidth_no4(val, size) ==
    CASE size = 1 -> <<val[1] % 256, 0, 0, 0>>
      [] size = 2 -> <<val[1], 0, 0, 0>>
      [] OTHER -> val

MaskWidth(val, size) ==
    CASE size = 1 -> <<val[1] % 256, 0, 0, 0>>
      [] size = 2 -> <<val[1], 0, 0, 0>>
      [] size = 4 -> <<val[1], val[2], 0, 0>>
      [] OTHER -> val

\* a register file whose IVPosition register is not implemented
RegValue_noIvPos(baridx, offset) ==
    IF baridx = IVSHMEM_MMIO_BAR
    THEN CASE offset = IVSHMEM_IRQ_MASK_REG -> Zero64
           [] offset = IVSHMEM_IRQ_STA_REG -> Zero64
           [] OTHER -> AllOnes64
    ELSE AllOnes64

\* lines 165-192: the register's value before masking
RegValue(baridx, offset) ==
    IF baridx = IVSHMEM_MMIO_BAR
    THEN CASE offset = IVSHMEM_IRQ_MASK_REG -> Zero64
           [] offset = IVSHMEM_IRQ_STA_REG -> Zero64
           [] offset = IVSHMEM_IV_POS_REG -> Zero64
           [] OTHER -> AllOnes64
    ELSE AllOnes64

\* lines 161-207
pci_ivshmem_read(baridx, offset, size) == MaskWidth(RegValue(baridx, offset), size)

\* lines 150-151: the two numbers of the doorbell's log record
DoorbellVector(value) == value[1] % 256
\* a decoding that takes the peer from the byte next to the vector
DoorbellPeer_nextByte(value) == (value[1] \div 256) % 256
DoorbellPeer(value) == value[2] % 256

\* lines 140-158: what the handler logs at warning level
WriteLog(baridx, offset, value) ==
    IF baridx = IVSHMEM_MMIO_BAR /\ offset = IVSHMEM_DOORBELL_REG
    THEN <<DoorbellVector(value), DoorbellPeer(value)>>
    ELSE <<>>

\* the accesses the framework dispatches to an initialised device
BarIdxs == {IVSHMEM_MMIO_BAR, IVSHMEM_MEM_BAR}
Offsets == {IVSHMEM_IRQ_MASK_REG, IVSHMEM_IRQ_STA_REG, IVSHMEM_IV_POS_REG,
            IVSHMEM_DOORBELL_REG, 32}
Widths == {1, 2, 4, 8}
\* 0x000100FF, 0x12345678 and all ones
WriteValues == {<<255, 1, 0, 0>>, <<22136, 4660, 0, 0>>, AllOnes64}

Exposed(i) == Idle(i) /\ arg[i].alloc

\* lines 161-207: the handler reads no device state and writes none
RegRead(i, baridx, offset, size) ==
    /\ Exposed(i)
    /\ io' = [op |-> "read", baridx |-> baridx, offset |-> offset, size |-> size,
              val |-> pci_ivshmem_read(baridx, offset, size), log |-> <<>>,
              wrote |-> io.wrote]
    /\ UNCHANGED <<pc, loc, arg, cfg, fdt, vma, guest, ns, objSize, faults, res>>

\* a doorbell write that drops the recorded size
pci_ivshmem_write_clobber(v, baridx, offset, size, value) ==
    IF baridx = IVSHMEM_MMIO_BAR /\ offset = IVSHMEM_DOORBELL_REG
    THEN [v EXCEPT !.size = 0]
    ELSE v

\* lines 133-159: the device state a write leaves behind
pci_ivshmem_write(v, baridx, offset, size, value) == v

RegWrite(i, baridx, offset, size, value) ==
    /\ Exposed(i)
    /\ arg' = [arg EXCEPT ![i] = pci_ivshmem_write(@, baridx, offset, size, value)]
    /\ io' = [op |-> "write", baridx |-> baridx, offset |-> offset, size |-> size,
              val |-> value, log |-> WriteLog(baridx, offset, value),
              wrote |-> TRUE]
    /\ UNCHANGED <<pc, loc, cfg, fdt, vma, guest, ns, objSize, faults, res>>

(***************************************************************************)
(* The lifecycle of the instances, with primitive failures.                *)
(***************************************************************************)
pci_ivshmem_init(i) ==
    \/ \E o \in Opts : InitParseFail(i, o)
    \/ \E o \in Opts : InitNoMem(i, o)
    \/ \E o \in Opts : InitCreateOk(i, o)
    \/ \E o \in Opts : InitCreateExists(i, o)
    \/ \E o \in Opts : InitCreateFail(i, o)

create_shared_memory(i) ==
    \/ ShmOpenOk(i) \/ ShmOpenFail(i)
    \/ FtruncateOk(i) \/ FtruncateFail(i)
    \/ FstatMatch(i) \/ FstatMismatch(i) \/ FstatFail(i)
    \/ \E mm, vm, sd \in BOOLEAN : MapRegion(i, mm, vm, sd)

pci_ivshmem_deinit(i) == DeinitNone(i) \/ Deinit(i)

Next == \E i \in Inst :
    \/ pci_ivshmem_init(i) \/ create_shared_memory(i) \/ pci_ivshmem_deinit(i)
    \/ DevFree(i)

Spec == Init /\ [][Next]_vars

(***************************************************************************)
(* Two or more instances each make one init call, all with the same name   *)
(* and the same valid size, and no primitive fails: the interleavings of   *)
(* the steps of concurrent first creation.                                 *)
(***************************************************************************)
SameSizeSoFar(opts) ==
    \A j \in Inst : cfg[j] = NoCfg \/ cfg[j] = CfgFor(ParseOpts(opts).size)

NextRace == \E i \in Inst :
    \/ \E o \in GoodOpts : SameSizeSoFar(o) /\ InitCreateOk(i, o)
    \/ \E o \in GoodOpts : SameSizeSoFar(o) /\ InitCreateExists(i, o)
    \/ ShmOpenOk(i)
    \/ FtruncateOk(i)
    \/ FstatMatch(i)
    \/ FstatMismatch(i)
    \/ MapRegion(i, TRUE, TRUE, TRUE)

SpecRace == Init /\ [][NextRace]_vars

(***************************************************************************)
(* Devices that come up without a failure, and the guest's accesses to     *)
(* their register BAR.                                                     *)
(***************************************************************************)
InitReg == Init /\ \A i \in Inst : fdt[i][0] = Other

NextReg == \E i \in Inst :
    \/ InitCreateOk(i, Opt(Name0, SmallSize))
    \/ InitCreateExists(i, Opt(Name0, SmallSize))
    \/ ShmOpenOk(i)
    \/ FtruncateOk(i)
    \/ FstatMatch(i)
    \/ FstatMismatch(i)
    \/ MapRegion(i, TRUE, TRUE, TRUE)
    \/ Deinit(i)
    \/ DevFree(i)
    \/ \E b \in BarIdxs, o \in Offsets, w \in Widths : RegRead(i, b, o, w)
    \/ \E b \in BarIdxs, o \in Offsets, w \in Widths, v \in WriteValues :
          RegWrite(i, b, o, w, v)

SpecReg == InitReg /\ [][NextReg]_vars

TypeOK ==
    /\ pc \in [Inst -> {"idle", "open", "truncate", "stat", "map"}]
    /\ faults \in 0..MaxFaults
    /\ \A i \in Inst : Cardinality(vma[i]) <= 1

(***************************************************************************)
(* Vocabulary of the properties.                                           *)
(***************************************************************************)
\* the instance holds a Region: its last init returned 0 and no deinit followed
HoldsRegion(i) == Idle(i) /\ arg[i].alloc
\* the backing object behind a held Region's handle
RegionObj(i) == FdObj(i, arg[i].fd)
\* a power of two in [4 KiB, 128 MiB]
Pow2InRange == {4096, 8192, 16384, 32768, 65536, 131072, 262144, 524288, 1048576,
                2097152, 4194304, 8388608, 16777216, 33554432, 67108864, 134217728}
\* the instance's init call has returned
Returned(i) == Idle(i) /\ res[i].op = "init"
\* the step is a return of the init call of i
InitReturns(i) ==
    /\ res[i].op # "init" /\ res'[i].op = "init"
    /\ pc'[i] = "idle"

(***************************************************************************)
(* Over SpecRace: every init call that has returned returned 0, and once   *)
(* all have returned exactly one took the creator path and all hold a      *)
(* Region of the same size.                                                *)
(***************************************************************************)
RaceAllSucceed ==
    /\ \A i \in Inst : Returned(i) => res[i].ret = 0
    /\ (\A i \in Inst : Returned(i)) =>
          /\ Cardinality({i \in Inst : res[i].creator}) = 1
          /\ \A i, j \in Inst : arg[i].size = arg[j].size

(***************************************************************************)
(* C1.  Two instances race to acquire the same name with the same valid    *)
(* size and no primitive fails: in every interleaving of their steps       *)
(* (exclusive create, fallback open, resize, size check, map) both calls   *)
(* succeed, exactly one took the creator path and the other the joiner     *)
(* path, and both hold a Region of the same size.  Stated over SpecRace    *)
(* for processes that were started with descriptor 0 open, so that no      *)
(* shm_open returns 0 and only the interleaving decides.                   *)
(***************************************************************************)
C1_RaceBothSucceed ==
    (\A i \in Inst : fdt[i][0] = Other) => RaceAllSucceed

(***************************************************************************)
(* C2.  An acquire whose name leads to an object that another instance's   *)
(* Region holds, and whose size differs from that object's, fails: at the  *)
(* size check the call returns -1, and the holder's Region (its struct,    *)
(* its descriptors, its mappings), the object's size and the namespace     *)
(* are as before; and no call ever gets past the size check with such an   *)
(* object.                                                                 *)
(***************************************************************************)
C2_Conflict(a, b) ==
    /\ a # b
    /\ HoldsRegion(a)
    /\ pc[b] \in {"stat", "map"}
    /\ FdObj(b, loc[b].fd) = RegionObj(a)
    /\ loc[b].size # objSize[RegionObj(a)]

C2_NotPastCheck == \A a, b \in Inst : C2_Conflict(a, b) => pc[b] = "stat"

C2_CheckStep ==
    \A a, b \in Inst :
        C2_Conflict(a, b) /\ pc'[b] # pc[b] =>
            /\ res'[b] = Failed /\ ~arg'[b].alloc /\ pc'[b] = "idle"
            /\ arg'[a] = arg[a] /\ fdt'[a] = fdt[a] /\ vma'[a] = vma[a]
            /\ objSize'[RegionObj(a)] = objSize[RegionObj(a)]
            /\ ns' = ns

C2_MismatchFailsUntouched == []C2_NotPastCheck /\ [][C2_CheckStep]_vars

\* a call with another size has just failed while the name's object is held
C2_Witness ==
    \E a, b \in Inst :
        /\ a # b /\ HoldsRegion(a) /\ ns[arg[a].name] = RegionObj(a)
        /\ Returned(b) /\ res[b].ret = -1 /\ faults = 0
        /\ cfg[b] # NoCfg /\ cfg[b].bar2[2] # arg[a].size
        /\ fdt[b][0] = Other /\ fdt[b][3] = Free

(***************************************************************************)
(* C3.  init succeeds only with a size that is a power of two in           *)
(* [4096, 134217728]: a call with any other size returns -1 and changes    *)
(* nothing (no config-space identity, no BAR, no backing object, no        *)
(* descriptor, no mapping, no device state); and every call that got past  *)
(* validation, and every Region held, has such a size.                     *)
(***************************************************************************)
TestSizes == ValidSizes \cup BadSizes

InitCall(i, opts) ==
    \/ InitParseFail(i, opts) \/ InitNoMem(i, opts) \/ InitCreateOk(i, opts)
    \/ InitCreateExists(i, opts) \/ InitCreateFail(i, opts)

C3_BadSizeStep ==
    \A i \in Inst : \A s \in TestSizes :
        s \notin Pow2InRange /\ InitCall(i, Opt(Name0, s)) =>
            /\ res'[i] = Failed
            /\ UNCHANGED <<pc, loc, arg, cfg, fdt, vma, guest, ns, objSize>>

C3_SizesValid ==
    \A i \in Inst :
        /\ pc[i] # "idle" => loc[i].size \in Pow2InRange
        /\ cfg[i] # NoCfg => cfg[i].bar2[2] \in Pow2InRange
        /\ arg[i].alloc /\ Idle(i) => arg[i].size \in Pow2InRange

C3_InvalidSizeRejected == []C3_SizesValid /\ [][C3_BadSizeStep]_vars

\* a call was rejected before anything was written, with no injected failure
C3_Witness ==
    \E i \in Inst : Returned(i) /\ res[i].ret = -1 /\ cfg[i] = NoCfg /\ faults = 0

(***************************************************************************)
(* C4.  When acquire fails, at whatever step, then on return the handle    *)
(* it had opened is closed, whatever its value (0 included), and the       *)
(* process has no mapping the call made.                                   *)
(***************************************************************************)
C4_FailStep ==
    \A i \in Inst :
        InitReturns(i) /\ res'[i].ret = -1 =>
            /\ loc[i].fd >= 0 => fdt'[i][loc[i].fd] = Free
            /\ vma'[i] = vma[i]

C4_FailedAcquireUnwinds == [][C4_FailStep]_vars

(***************************************************************************)
(* C5.  A deinit by an instance that attached as joiner unmaps and closes  *)
(* but leaves the name in the namespace: only the creator's release        *)
(* removes it.                                                             *)
(***************************************************************************)
C5_JoinerStep ==
    \A i \in Inst :
        HoldsRegion(i) /\ ~arg'[i].alloc /\ ~res[i].creator => ns' = ns

C5_JoinerKeepsName == [][C5_JoinerStep]_vars

(***************************************************************************)
(* C6.  Once every instance that held a Region for the name has released   *)
(* it (one has, and no other instance holds one or is acquiring), a fresh  *)
(* acquire with that name whose shm_open does not fail takes the creator   *)
(* path, as if there had been no Region before, and the resize then gives  *)
(* the object the size the call asked for.                                 *)
(***************************************************************************)
C6_AllReleased(i) ==
    /\ \E j \in Inst \ {i} : res[j].op = "deinit"
    /\ \A j \in Inst \ {i} : Idle(j) /\ ~arg[j].alloc

C6_FreshStep ==
    \A i \in Inst :
        /\ \A o \in GoodOpts :
              InitCall(i, o) /\ faults' = faults /\ C6_AllReleased(i) =>
                  loc'[i].created /\ loc'[i].is_shm_creator /\ pc'[i] = "truncate"
        /\ pc[i] = "truncate" /\ pc'[i] = "map" =>
              objSize'[FdObj(i, loc[i].fd)] = loc[i].size

C6_FreshAfterRelease == [][C6_FreshStep]_vars

(***************************************************************************)
(* C7.  For every valid size, with no primitive failing and no other       *)
(* instance about, init succeeds and leaves a 0x100-byte 32-bit register   *)
(* BAR, a 64-bit memory BAR of exactly size bytes, and a Region whose      *)
(* recorded size, mapping length and guest installation length are size,   *)
(* installed at the base read back from the memory BAR.  (Over SpecRace.)  *)
(***************************************************************************)
C7_Post(i, s) ==
    /\ cfg[i].bar0 = <<PCIBAR_MEM32, IVSHMEM_REG_SIZE>>
    /\ cfg[i].bar2 = <<PCIBAR_MEM64, s>>
    /\ arg[i].size = s
    /\ vma[i] = {[addr |-> arg[i].addr, len |-> s, obj |-> RegionObj(i)]}
    /\ guest[i] = {[gpa |-> AllocBase(s), len |-> s, hva |-> arg[i].addr]}

C7_ValidInitSucceeds ==
    \A i \in Inst :
        Returned(i) /\ (\A j \in Inst \ {i} : Fresh(j)) =>
            res[i].ret = 0 /\ \E s \in ValidSizes : C7_Post(i, s)

(***************************************************************************)
(* C8.  A read of the register BAR at offset 0x00, 0x04 or 0x08 with       *)
(* width 1, 2 or 4 returns 0, whatever register writes and reads came      *)
(* before it.  (Over SpecReg.)                                             *)
(***************************************************************************)
DefinedRegs == {IVSHMEM_IRQ_MASK_REG, IVSHMEM_IRQ_STA_REG, IVSHMEM_IV_POS_REG}

NarrowWidths == {1, 2, 4}

RegBarRead == io.op = "read" /\ io.baridx = IVSHMEM_MMIO_BAR /\ io.size \in NarrowWidths

C8_DefinedRegsReadZero ==
    RegBarRead /\ io.offset \in DefinedRegs => io.val = Zero64

C8_Witness ==
    /\ RegBarRead /\ io.offset = IVSHMEM_IV_POS_REG /\ io.size = 4
    /\ io.wrote

(***************************************************************************)
(* C9.  A read of the register BAR at any other offset, the doorbell's     *)
(* 0x0C included, returns all ones masked to the access width: 0xFF for    *)
(* width 1, 0xFFFF for width 2, 0xFFFFFFFF for width 4, and no bit above   *)
(* the width.  (Over SpecReg.)                                             *)
(***************************************************************************)
OnesOfWidth(size) ==
    CASE size = 1 -> <<255, 0, 0, 0>>
      [] size = 2 -> <<Word - 1, 0, 0, 0>>
      [] size = 4 -> <<Word - 1, Word - 1, 0, 0>>

C9_OtherRegsReadOnes ==
    RegBarRead /\ io.offset \notin DefinedRegs => io.val = OnesOfWidth(io.size)

C9_Witness ==
    /\ RegBarRead /\ io.offset = IVSHMEM_DOORBELL_REG /\ io.size = 4
    /\ io.val = <<Word - 1, Word - 1, 0, 0>>

(***************************************************************************)
(* C10.  A register write, at any offset and with any width and value,     *)
(* leaves every piece of device state as it was: the Region's handle,      *)
(* mapping, size and name, the configuration space, the backing object     *)
(* and the namespace.  (Over SpecReg.)                                     *)
(***************************************************************************)
WriteStep == io' # io /\ io'.op = "write"

C10_WriteStep ==
    WriteStep => UNCHANGED <<pc, loc, arg, cfg, fdt, vma, guest, ns, objSize>>

C10_WriteChangesNothing == [][C10_WriteStep]_vars

C10_Witness ==
    /\ io.op = "write" /\ io.baridx = IVSHMEM_MMIO_BAR
    /\ io.offset = IVSHMEM_DOORBELL_REG /\ io.val = AllOnes64
    /\ \E i \in Inst : HoldsRegion(i)

(***************************************************************************)
(* C11.  deinit is idempotent: a deinit of an initialised device clears    *)
(* dev->arg, and on a device whose last call was a deinit or a failed init *)
(* the device state is absent and a deinit unmaps nothing, closes nothing, *)
(* unlinks nothing and leaves the namespace, the objects and every         *)
(* instance's Region as they were.                                         *)
(***************************************************************************)
Cleared(i) == Idle(i) /\ (res[i].op \in {"deinit", "noop"} \/ res[i] = Failed)

C11_StateAbsent == \A i \in Inst : Cleared(i) => arg[i] = NoDev

C11_DeinitStep ==
    \A i \in Inst :
        /\ Deinit(i) => arg'[i] = NoDev
        /\ Cleared(i) /\ (Deinit(i) \/ DeinitNone(i)) =>
              UNCHANGED <<arg, fdt, vma, guest, ns, objSize>>

C11_DeinitIdempotent == []C11_StateAbsent /\ [][C11_DeinitStep]_vars

\* a repeated deinit has run while another instance holds a Region on the name
C11_Witness ==
    \E i, j \in Inst :
        /\ i # j /\ res[i].op = "noop" /\ ~res[i].creator
        /\ HoldsRegion(j) /\ ns[arg[j].name] = RegionObj(j)

(***************************************************************************)
(* C12.  init with an option string whose name part is empty (",4096")     *)
(* returns -1 and has no side effect: no config-space identity is written, *)
(* no BAR is allocated, no backing object is created or opened.            *)
(***************************************************************************)
C12_EmptyNameStep ==
    \A i \in Inst : \A o \in EmptyNameOpts :
        InitCall(i, o) /\ faults' = faults =>
            /\ res'[i] = Failed
            /\ UNCHANGED <<cfg, arg, fdt, vma, guest, ns, objSize>>

C12_EmptyNameRejected == [][C12_EmptyNameStep]_vars

(***************************************************************************)
(* C13.  When mmap fails, acquire returns -1 and records no Region,        *)
(* whatever vm_map_memseg_vma answers for the address it is given; and the *)
(* address of every Region held is that of a mapping of the process, never *)
(* mmap's error value.                                                     *)
(***************************************************************************)
C13_MmapFailStep ==
    \A i \in Inst : \A vm, sd \in BOOLEAN :
        MapRegion(i, FALSE, vm, sd) => res'[i] = Failed /\ arg'[i] = NoDev

C13_RegionMapped ==
    \A i \in Inst :
        HoldsRegion(i) =>
            /\ arg[i].addr # MAP_FAILED
            /\ \E m \in vma[i] : m.addr = arg[i].addr /\ m.len = arg[i].size

C13_MmapFailureFails == []C13_RegionMapped /\ [][C13_MmapFailStep]_vars

(***************************************************************************)
(* C14.  When an acquire that created the named object fails afterwards    *)
(* (resize, mmap, guest installation, name copy), the object goes with it: *)
(* on return the name is out of the namespace; so whenever no instance     *)
(* holds a Region or is inside a call no name is left, and a later acquire *)
(* of the same name starts from nothing.                                   *)
(***************************************************************************)
C14_FailStep ==
    \A i \in Inst :
        InitReturns(i) /\ res'[i].ret = -1 /\ loc[i].created =>
            ns'[loc[i].name] = NoObj

C14_NoLeftover ==
    (\A i \in Inst : Idle(i) /\ ~arg[i].alloc) => \A n \in Names : ns[n] = NoObj

C14_FailedCreateReleased == []C14_NoLeftover /\ [][C14_FailStep]_vars

(***************************************************************************)
(* C15.  A call whose exclusive create succeeded, whatever descriptor it   *)
(* returned (0 included), is on the creator path and its resize makes the  *)
(* object exactly size bytes long; a call is on the joiner path (the size  *)
(* check) only if its exclusive create failed and its fallback open gave   *)
(* it the descriptor.                                                      *)
(***************************************************************************)
C15_Paths ==
    \A i \in Inst :
        /\ pc[i] \in {"truncate", "stat", "map"} =>
               (loc[i].is_shm_creator <=> loc[i].created)
        /\ pc[i] = "truncate" => loc[i].created
        /\ pc[i] = "stat" => ~loc[i].created

C15_ResizeStep ==
    \A i \in Inst :
        pc[i] = "truncate" /\ pc'[i] = "map" =>
            objSize'[FdObj(i, loc[i].fd)] = loc[i].size

C15_CreatorByCreate == []C15_Paths /\ [][C15_ResizeStep]_vars

(***************************************************************************)
(* C16.  An object's size is set only by the resize of the call whose      *)
(* exclusive create made it, and only once (from its initial 0); a call on *)
(* the joiner path never changes it; and every Region held records the     *)
(* size its object has.                                                    *)
(***************************************************************************)
C16_ResizedBy(i, o) ==
    /\ pc[i] = "truncate" /\ pc'[i] = "map"
    /\ loc[i].created /\ FdObj(i, loc[i].fd) = o
    /\ objSize[o] = 0 /\ objSize'[o] = loc[i].size

C16_SizeStep ==
    \A o \in Objs :
        objSize'[o] # objSize[o] =>
            \/ \E i \in Inst : C16_ResizedBy(i, o)
            \/ objSize'[o] = 0 /\ ~Referenced(o, ns', fdt', vma')

C16_SizesAgree ==
    \A i \in Inst : HoldsRegion(i) => arg[i].size = objSize[RegionObj(i)]

C16_OnlyCreatorResizes == []C16_SizesAgree /\ [][C16_SizeStep]_vars

\* creator and joiner hold Regions on one object of the larger size
C16_Witness ==
    \E i, j \in Inst :
        /\ HoldsRegion(i) /\ HoldsRegion(j) /\ res[i].creator /\ ~res[j].creator
        /\ RegionObj(i) = RegionObj(j) /\ objSize[RegionObj(i)] = BigSize

(***************************************************************************)
(* C17.  A write to the doorbell offset 0x0C logs two numbers decoded from *)
(* the value: the vector, its bits 0..7, and the peer identifier.          *)
(* Field(value, lo) is the byte made of bits lo..lo+7 of the 64-bit value. *)
(***************************************************************************)
Bit(value, k) == (value[(k \div 16) + 1] \div (2 ^ (k % 16))) % 2

RECURSIVE FieldBits(_, _, _)
FieldBits(value, lo, n) ==
    IF n = 0 THEN 0 ELSE Bit(value, lo) + 2 * FieldBits(value, lo + 1, n - 1)

Field(value, lo) == FieldBits(value, lo, 8)

DoorbellWrite ==
    io.op = "write" /\ io.baridx = IVSHMEM_MMIO_BAR /\ io.offset = IVSHMEM_DOORBELL_REG

\* C17 as stated: the peer identifier is the next byte, bits 8..15, so that
\* 0x000100FF gives vector 0xFF and peer 0x00
C17_PeerIsNextByte ==
    DoorbellWrite => io.log = <<Field(io.val, 0), Field(io.val, 8)>>

\* C17 amended: the peer identifier is bits 16..23, so that 0x000100FF gives
\* vector 0xFF and peer 0x01
C17_PeerIsThirdByte ==
    /\ DoorbellWrite => io.log = <<Field(io.val, 0), Field(io.val, 16)>>
    /\ DoorbellWrite /\ io.val = <<255, 1, 0, 0>> => io.log = <<255, 1>>

C17_Witness ==
    DoorbellWrite /\ io.val = <<22136, 4660, 0, 0>> /\ io.log = <<120, 52>>

(***************************************************************************)
(* C18.  Any two instances that hold, at the same time, Regions acquired   *)
(* under the same name are on the same backing object.                     *)
(***************************************************************************)
C18_SameNameSameObject ==
    \A i, j \in Inst :
        HoldsRegion(i) /\ HoldsRegion(j) /\ arg[i].name = arg[j].name =>
            RegionObj(i) = RegionObj(j)

(***************************************************************************)
(* C19.  Every guest physical range this device has installed points at a  *)
(* host mapping of the process that is still mapped: neither an acquire    *)
(* that fails after the installation nor deinit leaves a range whose host  *)
(* mapping is gone.                                                        *)
(***************************************************************************)
C19_GuestRangesMapped ==
    \A i \in Inst : \A r \in guest[i] :
        \E m \in vma[i] : m.addr = r.hva /\ m.len = r.len

=============================================================================
